---- MODULE Spec2Model ----
(***************************************************************************)
(* Model of the Algebra 1 coach of src/main.py: the TutoringState record,  *)
(* the message classifiers, the stage determination and the respond turn,  *)
(* driven either by an interactive session (set_problem, force_reveal,     *)
(* mark_correct, respond) or by the one-shot process_turn entry point.     *)
(***************************************************************************)
EXTENDS Integers, Sequences, FiniteSets, TLC

(* ------------------------------ bounds --------------------------------- *)

\* longest student_work_history explored within one problem
MaxHistory == 5
\* largest attempt_count a caller hands to process_turn
MaxAttemptInput == 6

(* --------------------------- TutoringStage ----------------------------- *)

STAGE_0_SETUP == 0
STAGE_1_FIRST_ATTEMPT == 1
STAGE_2_VALIDATION == 2
STAGE_3_DIAGNOSE == 3
STAGE_4_FINAL_HINT == 4
STAGE_5_REVEAL == 5

TutoringStage == STAGE_0_SETUP..STAGE_5_REVEAL

(* ------------------------------ inputs --------------------------------- *)

\* student messages: a greeting, plain work, an upper-case claim, a question
Msgs == {"hi", "2+3", "X = 5", "Is it 5?"}

Problems == {"3x + 7 = 22", "2y = 8"}

\* generator replies: a confirmation that asks on, a rejection, and a
\* closing praise (sent with trailing white space)
Replies ==
    { "That's correct! Can you walk me through it?",
      "Hmm, not quite - check your sign.",
      "Perfect! You nailed it. " }

\* attempt_count values a process_turn caller may supply (one negative)
AttemptInputs == {0 - 1} \cup (0..MaxAttemptInput)

(* ------------------------- string primitives --------------------------- *)

UpperChars == "ABCDEFGHIJKLMNOPQRSTUVWXYZ"
LowerChars == "abcdefghijklmnopqrstuvwxyz"

\* str.lower() on one character
LowerChar(c) ==
    IF \E i \in 1..Len(UpperChars) : SubSeq(UpperChars, i, i) = c
    THEN LET i == CHOOSE j \in 1..Len(UpperChars) : SubSeq(UpperChars, j, j) = c
         IN  SubSeq(LowerChars, i, i)
    ELSE c

\* str.lower()
RECURSIVE Lower(_)
Lower(s) ==
    IF Len(s) = 0 THEN s
    ELSE LowerChar(SubSeq(s, 1, 1)) \o Lower(SubSeq(s, 2, Len(s)))

IsSpace(c) == c \in {" ", "\t", "\n", "\r"}

RECURSIVE LStrip(_)
LStrip(s) ==
    IF Len(s) > 0 /\ IsSpace(SubSeq(s, 1, 1)) THEN LStrip(SubSeq(s, 2, Len(s))) ELSE s

RECURSIVE RStrip(_)
RStrip(s) ==
    IF Len(s) > 0 /\ IsSpace(SubSeq(s, Len(s), Len(s)))
    THEN RStrip(SubSeq(s, 1, Len(s) - 1)) ELSE s

\* str.strip()
Strip(s) == RStrip(LStrip(s))

\* Python's  sub in s
Contains(s, sub) ==
    \E i \in 1..(Len(s) - Len(sub) + 1) : SubSeq(s, i, i + Len(sub) - 1) = sub

(* ---------------------------- classifiers ------------------------------ *)

answer_indicators ==
    { "is the answer", "my answer", "i got", "the answer is",
      "i think it's", "it equals", "x =", "x=", "= ",
      "equals", "answer:", "final answer", "solution is",
      "it's ", "is it", "would it be", "i believe" }

\* fault: the message is matched without lower-casing it
_detect_answer_claim_case_sensitive(message) ==
    \E indicator \in answer_indicators : Contains(message, indicator)

_detect_answer_claim(message) ==
    LET msg_lower == Lower(message)
    IN  \E indicator \in answer_indicators : Contains(msg_lower, indicator)

non_substantive ==
    { "hi", "hello", "hey", "help", "?", "what", "how", "why",
      "i don't know", "idk", "i'm stuck", "confused" }

substantive_indicators ==
    { "+", "-", "*", "/", "=", "x", "y",
      "first", "then", "so", "because", "if",
      "multiply", "divide", "add", "subtract",
      "equation", "solve", "variable" }

\* fault: only the words of the marker list are looked for, not the operators
_is_substantive_attempt_words_only(message) ==
    LET msg_lower == Strip(Lower(message))
    IN  IF msg_lower \in non_substantive \/ Len(msg_lower) < 3
        THEN FALSE
        ELSE \E ind \in substantive_indicators \ {"+", "-", "*", "/", "="} :
                Contains(msg_lower, ind)

\* fault: a message is rejected when it contains a non-substantive phrase
_is_substantive_attempt_phrase_anywhere(message) ==
    LET msg_lower == Strip(Lower(message))
    IN  IF (\E phrase \in non_substantive : Contains(msg_lower, phrase))
           \/ Len(msg_lower) < 3
        THEN FALSE
        ELSE \E ind \in substantive_indicators : Contains(msg_lower, ind)

_is_substantive_attempt(message) ==
    LET msg_lower == Strip(Lower(message))
    IN  IF msg_lower \in non_substantive \/ Len(msg_lower) < 3
        THEN FALSE
        ELSE \E ind \in substantive_indicators : Contains(msg_lower, ind)

\* the classifiers tabulated over the explored messages
ClaimMsgs == {m \in Msgs : _detect_answer_claim(m)}
SubstantiveMsgs == {m \in Msgs : _is_substantive_attempt(m)}

(* --------------------- the Streamlit page: data ------------------------ *)

\* longest chat_history explored for one question
MaxChat == 8
\* largest coin balance explored
MaxCoins == 10
\* largest question index (0-based) the student navigates to
MaxQuestionIdx == 1
\* largest fish balance explored in the shop
MaxBalance == 40

None == "None"

Users == {"u1"}

\* text the student types into the chat box: a greeting
UserInputs == {"hi"}

\* result["response"] of a coach call made by the page
UiResponses == {Strip(r) : r \in Replies}

\* get_sample_questions(): number, choices, correct_answer and question_type
\* of the five sample questions (exponents written with ^)
get_sample_questions ==
    << [ number |-> 1, question_type |-> "mcq", correct_answer |-> 2,
         choices |-> << "(1) the number of computers repaired per week",
                        "(2) the number of hours worked per week",
                        "(3) the employee's total weekly pay",
                        "(4) the total weekly profit" >> ],
       [ number |-> 2, question_type |-> "frq", correct_answer |-> 0 - 1,
         choices |-> << >> ],
       [ number |-> 3, question_type |-> "mcq", correct_answer |-> 2,
         choices |-> << "(1) 2x^4 - 5x^3 + 7x^2",
                        "(2) x^4 - 5/2x^3 + 7/2x^2",
                        "(3) x^4 + 1/2x^3 + 3/2x^2",
                        "(4) x^4 - 5x^3 + 7x^2" >> ],
       [ number |-> 4, question_type |-> "mcq", correct_answer |-> 1,
         choices |-> << "(1) x^2 + 7x + 12",
                        "(2) x^2 + 9x + 20",
                        "(3) x^2 + 7x + 20",
                        "(4) x^2 + 9x + 12" >> ],
       [ number |-> 5, question_type |-> "mcq", correct_answer |-> 4,
         choices |-> << "(1) -2", "(2) 2", "(3) -4", "(4) 4" >> ] >>

\* question lists parse_questions_from_uploaded_pdf may return: none, or two
UploadedQuestionLists ==
    { << >>,
      << [ number |-> 1, question_type |-> "frq", correct_answer |-> 0,
           choices |-> << >> ],
         [ number |-> 2, question_type |-> "mcq", correct_answer |-> 1,
           choices |-> << "(1) 3", "(2) 5" >> ] >> }

\* init_session_state(); question indices are 0-based as in the page
init_session_state ==
    [ logged_in              |-> FALSE,
      user_id                |-> None,
      questions              |-> get_sample_questions,
      using_sample_questions |-> TRUE,
      current_question_idx   |-> 0,
      chat_history           |-> << >>,
      attempt_count          |-> 0,
      correct_questions      |-> {},
      answer_is_correct      |-> FALSE,
      awaiting_explanation   |-> FALSE,
      rewarded_questions     |-> {} ]

\* the record sign_up writes for a new user (currency, solved count, items)
NewUserData == [ currency |-> 0, solved_questions |-> 0, inventory |-> << >> ]

\* a problem offered by the page: the list it belongs to (the samples or an
\* upload) and its index in that list
ProblemOf(ss) == <<ss.using_sample_questions, ss.current_question_idx>>

\* no update_currency call made yet
NoRewardCalls ==
    [ k \in Users \X (BOOLEAN \X (0..(Len(get_sample_questions) - 1))) |-> 0 ]

\* no function called yet
NoCall == [ fn |-> None, arg |-> None ]

\* no database call in progress
NoTasks == [ start |-> 0, calls |-> << >> ]

(* ------------------------------- state --------------------------------- *)

VARIABLES
    state,            \* the coach's TutoringState (self.state)
    pc,               \* "idle" | "awaiting" (generator call in flight) | "closed" (no coach open)
    caller,           \* "session" (interactive_session) | "api" (process_turn)
    student_message,  \* argument of the respond call in progress ("" when none is)
    turn_entry,       \* self.state as it was when that call was entered
    response,         \* text the last respond call returned ("" when it returned none)
    session_state,    \* st.session_state of the Streamlit page (src/ui.py)
    db,               \* the users' records of the Firebase database
    reward_calls,     \* how often the page called update_currency, per user and problem
    call,             \* the function call made last: its name and argument
    result,           \* what that call returned
    tasks             \* the database calls in progress side by side, and
                      \* the balance they started from

coachVars == <<state, pc, caller, student_message, turn_entry, response>>
uiVars == <<session_state, db, reward_calls>>
fnVars == <<call, result>>
vars == <<state, pc, caller, student_message, turn_entry, response,
          session_state, db, reward_calls, call, result, tasks>>

\* TutoringState() defaults
TutoringState ==
    [ problem                |-> "",
      attempt_count          |-> 0,
      reveal_now             |-> FALSE,
      current_stage          |-> STAGE_0_SETUP,
      student_claimed_answer |-> FALSE,
      answer_validated       |-> FALSE,
      problem_solved         |-> FALSE,
      student_work_history   |-> << >> ]

\* the program is either an interactive session, whose coach is open, or a
\* client of process_turn, which opens a coach of its own for every call
Init ==
    /\ state = TutoringState
    /\ caller \in {"session", "api"}
    /\ pc = IF caller = "session" THEN "idle" ELSE "closed"
    /\ student_message = ""
    /\ turn_entry = TutoringState
    /\ response = ""
    /\ session_state = init_session_state
    /\ db = [u \in Users |-> NewUserData]
    /\ reward_calls = NoRewardCalls
    /\ call = NoCall
    /\ result = None
    /\ tasks = NoTasks

(* ------------------------- coach operations ---------------------------- *)

\* fault: the validation flag survives a problem change
set_problem_keeps_validation(s, problem) ==
    [ s EXCEPT !.problem = problem,
               !.attempt_count = 0,
               !.reveal_now = FALSE,
               !.current_stage = STAGE_0_SETUP,
               !.student_claimed_answer = FALSE,
               !.problem_solved = FALSE,
               !.student_work_history = << >> ]

set_problem(s, problem) ==
    [ s EXCEPT !.problem = problem,
               !.attempt_count = 0,
               !.reveal_now = FALSE,
               !.current_stage = STAGE_0_SETUP,
               !.student_claimed_answer = FALSE,
               !.answer_validated = FALSE,
               !.problem_solved = FALSE,
               !.student_work_history = << >> ]

force_reveal(s) ==
    [ s EXCEPT !.reveal_now = TRUE, !.current_stage = STAGE_5_REVEAL ]

mark_correct(s) ==
    [ s EXCEPT !.problem_solved = TRUE ]

\* the rule chain of _determine_stage with single rules altered; the variants
\* below are the faults the properties at the end are tested against
StageRulesVariant(s, m, revealFlag, solvedRule, claimFirst, firstBand) ==
    IF (revealFlag /\ s.reveal_now) \/ s.attempt_count >= 5
    THEN [ s EXCEPT !.current_stage = STAGE_5_REVEAL ]
    ELSE IF solvedRule /\ s.problem_solved
    THEN [ s EXCEPT !.current_stage = STAGE_5_REVEAL ]
    ELSE IF ~claimFirst /\ s.attempt_count = 0
    THEN [ s EXCEPT !.current_stage = STAGE_0_SETUP ]
    ELSE IF m \in ClaimMsgs /\ ~s.answer_validated
    THEN [ s EXCEPT !.student_claimed_answer = TRUE,
                    !.current_stage = STAGE_2_VALIDATION ]
    ELSE IF s.attempt_count = 0
    THEN [ s EXCEPT !.current_stage = STAGE_0_SETUP ]
    ELSE IF s.attempt_count \in firstBand
    THEN [ s EXCEPT !.current_stage = STAGE_1_FIRST_ATTEMPT ]
    ELSE IF s.attempt_count \in {3, 4}
    THEN [ s EXCEPT !.current_stage = STAGE_3_DIAGNOSE ]
    ELSE s

\* fault: the reveal_now flag is not consulted
_determine_stage_ignores_reveal_now(s, m) ==
    StageRulesVariant(s, m, FALSE, TRUE, FALSE, {1, 2})

\* fault: the problem_solved rule is missing
_determine_stage_ignores_solved(s, m) ==
    StageRulesVariant(s, m, TRUE, FALSE, FALSE, {1, 2})

\* fault: the answer-claim rule is tried before the attempt_count == 0 rule
_determine_stage_claim_before_setup(s, m) ==
    StageRulesVariant(s, m, TRUE, TRUE, TRUE, {1, 2})

\* fault: the first-attempt band reaches attempt 3
_determine_stage_wide_first_band(s, m) ==
    StageRulesVariant(s, m, TRUE, TRUE, FALSE, {1, 2, 3})

\* fault: a reveal request is consumed by the turn that serves it
_determine_stage_one_shot_reveal(s, m) ==
    LET t == StageRulesVariant(s, m, TRUE, TRUE, FALSE, {1, 2})
    IN  IF s.reveal_now THEN [ t EXCEPT !.reveal_now = FALSE ] ELSE t

_determine_stage(s, m) ==
    IF s.reveal_now \/ s.attempt_count >= 5
    THEN [ s EXCEPT !.current_stage = STAGE_5_REVEAL ]
    ELSE IF s.problem_solved
    THEN [ s EXCEPT !.current_stage = STAGE_5_REVEAL ]
    ELSE IF s.attempt_count = 0
    THEN [ s EXCEPT !.current_stage = STAGE_0_SETUP ]
    ELSE IF m \in ClaimMsgs /\ ~s.answer_validated
    THEN [ s EXCEPT !.student_claimed_answer = TRUE,
                    !.current_stage = STAGE_2_VALIDATION ]
    ELSE IF s.attempt_count \in {1, 2}
    THEN [ s EXCEPT !.current_stage = STAGE_1_FIRST_ATTEMPT ]
    ELSE IF s.attempt_count \in {3, 4}
    THEN [ s EXCEPT !.current_stage = STAGE_3_DIAGNOSE ]
    ELSE IF s.attempt_count = 5
    THEN [ s EXCEPT !.current_stage = STAGE_4_FINAL_HINT ]
    ELSE s

\* fault: the normalised message is logged instead of the raw one
TrackWork_normalised(s, m) ==
    [ s EXCEPT !.student_work_history = Append(@, Strip(Lower(m))) ]

\* respond, line 399: track the student's work
TrackWork(s, m) ==
    [ s EXCEPT !.student_work_history = Append(@, m) ]

\* fault: every substantive message counts as an attempt
CountFirstAttempt_every_message(s, m) ==
    IF m \in SubstantiveMsgs
    THEN [ s EXCEPT !.attempt_count = @ + 1 ]
    ELSE s

\* respond, lines 403-408: the first substantive attempt becomes attempt 1
CountFirstAttempt(s, m) ==
    IF m \in SubstantiveMsgs
    THEN IF s.attempt_count = 0
         THEN [ s EXCEPT !.attempt_count = 1 ]
         ELSE s
    ELSE s

\* fault: a resolved validation round gives the attempt back
ResolveValidation_returns_attempt(s) ==
    IF s.current_stage = STAGE_2_VALIDATION /\ s.answer_validated /\ ~s.problem_solved
    THEN [ s EXCEPT !.attempt_count = @ - 1,
                    !.answer_validated = FALSE,
                    !.student_claimed_answer = FALSE ]
    ELSE s

\* fault: the stage left by the previous turn is not checked
ResolveValidation_any_stage(s) ==
    IF s.answer_validated /\ ~s.problem_solved
    THEN [ s EXCEPT !.attempt_count = @ + 1,
                    !.answer_validated = FALSE,
                    !.student_claimed_answer = FALSE ]
    ELSE s

\* fault: the resolved round is charged but its validation flag is kept
ResolveValidation_keeps_validated(s) ==
    IF s.current_stage = STAGE_2_VALIDATION
    THEN IF s.answer_validated /\ ~s.problem_solved
         THEN [ s EXCEPT !.attempt_count = @ + 1,
                         !.student_claimed_answer = FALSE ]
         ELSE s
    ELSE s

\* respond, lines 411-415: a completed validation round costs one attempt
ResolveValidation(s) ==
    IF s.current_stage = STAGE_2_VALIDATION
    THEN IF s.answer_validated /\ ~s.problem_solved
         THEN [ s EXCEPT !.attempt_count = @ + 1,
                         !.answer_validated = FALSE,
                         !.student_claimed_answer = FALSE ]
         ELSE s
    ELSE s

\* respond up to the generator call (lines 398-427)
RespondBefore(s, m) ==
    _determine_stage(ResolveValidation(CountFirstAttempt(TrackWork(s, m), m)), m)

\* fault: the validation round is charged as soon as its reply arrives
RespondAfter_counts_at_once(s) ==
    IF s.current_stage = STAGE_2_VALIDATION
    THEN [ s EXCEPT !.answer_validated = TRUE, !.attempt_count = @ + 1 ]
    ELSE s

\* fault: validation is marked complete whatever the turn's stage was
RespondAfter_any_stage(s) ==
    [ s EXCEPT !.answer_validated = TRUE ]

\* respond after the generator reply (lines 439-443)
RespondAfter(s) ==
    IF s.current_stage = STAGE_2_VALIDATION
    THEN [ s EXCEPT !.answer_validated = TRUE ]
    ELSE s

(* ------------------------------ actions -------------------------------- *)

SetProblem ==
    /\ pc = "idle"
    /\ \E p \in Problems : state' = set_problem(state, p)
    /\ response' = ""
    /\ UNCHANGED <<pc, caller, student_message, turn_entry>>
    /\ UNCHANGED uiVars
    /\ UNCHANGED tasks
    /\ UNCHANGED fnVars

ForceReveal ==
    /\ pc = "idle"
    /\ state' = force_reveal(state)
    /\ response' = ""
    /\ UNCHANGED <<pc, caller, student_message, turn_entry>>
    /\ UNCHANGED uiVars
    /\ UNCHANGED tasks
    /\ UNCHANGED fnVars

MarkCorrect ==
    /\ pc = "idle"
    /\ state' = mark_correct(state)
    /\ response' = ""
    /\ UNCHANGED <<pc, caller, student_message, turn_entry>>
    /\ UNCHANGED uiVars
    /\ UNCHANGED tasks
    /\ UNCHANGED fnVars

\* coach.respond(message) of the interactive session, up to the generator call
Respond ==
    /\ pc = "idle"
    /\ Len(state.student_work_history) < MaxHistory
    /\ \E m \in Msgs :
          /\ state' = RespondBefore(state, m)
          /\ student_message' = m
    /\ turn_entry' = state
    /\ pc' = "awaiting"
    /\ response' = ""
    /\ UNCHANGED caller
    /\ UNCHANGED uiVars
    /\ UNCHANGED tasks
    /\ UNCHANGED fnVars


\* fault: process_turn keeps one coach for all its calls
ProcessTurn_reuses_coach ==
    /\ caller = "api"
    /\ pc = "closed"
    /\ \E p \in Problems, m \in Msgs, a \in AttemptInputs, r \in BOOLEAN :
          LET coach == [ state EXCEPT !.problem = p, !.attempt_count = a,
                                      !.reveal_now = r ]
          IN  /\ state' = RespondBefore(coach, m)
              /\ student_message' = m
              /\ turn_entry' = coach
    /\ pc' = "awaiting"
    /\ response' = ""
    /\ UNCHANGED caller
    /\ UNCHANGED uiVars
    /\ UNCHANGED tasks
    /\ UNCHANGED fnVars

\* process_turn: a fresh coach, set_problem, the caller's counters, one respond
ProcessTurn ==
    /\ caller = "api"
    /\ pc = "closed"
    /\ \E p \in Problems, m \in Msgs, a \in AttemptInputs, r \in BOOLEAN :
          LET coach == [ set_problem(TutoringState, p)
                           EXCEPT !.attempt_count = a, !.reveal_now = r ]
          IN  /\ state' = RespondBefore(coach, m)
              /\ student_message' = m
              /\ turn_entry' = coach
    /\ pc' = "awaiting"
    /\ response' = ""
    /\ UNCHANGED caller
    /\ UNCHANGED uiVars
    /\ UNCHANGED tasks
    /\ UNCHANGED fnVars

\* the generator replies: respond finishes; process_turn then closes its coach
GeneratorReply ==
    /\ pc = "awaiting"
    /\ state' = RespondAfter(state)
    /\ \E r \in Replies : response' = Strip(r)
    /\ pc' = IF caller = "api" THEN "closed" ELSE "idle"
    /\ student_message' = ""
    /\ turn_entry' = TutoringState
    /\ UNCHANGED caller
    /\ UNCHANGED uiVars
    /\ UNCHANGED tasks
    /\ UNCHANGED fnVars

\* fault: the failure is absorbed, the turn ends as if a reply had come
GeneratorFail_absorbed ==
    /\ pc = "awaiting"
    /\ state' = RespondAfter(state)
    /\ pc' = IF caller = "api" THEN "closed" ELSE "idle"
    /\ student_message' = ""
    /\ turn_entry' = TutoringState
    /\ response' = ""
    /\ UNCHANGED caller
    /\ UNCHANGED uiVars
    /\ UNCHANGED tasks
    /\ UNCHANGED fnVars

\* the generator call raises: respond is abandoned before its last step and
\* returns no text
GeneratorFail ==
    /\ pc = "awaiting"
    /\ pc' = IF caller = "api" THEN "closed" ELSE "idle"
    /\ student_message' = ""
    /\ turn_entry' = TutoringState
    /\ response' = ""
    /\ UNCHANGED <<state, caller>>
    /\ UNCHANGED uiVars
    /\ UNCHANGED tasks
    /\ UNCHANGED fnVars

Next ==
    \/ SetProblem
    \/ ForceReveal
    \/ MarkCorrect
    \/ Respond
    \/ ProcessTurn
    \/ GeneratorReply
    \/ GeneratorFail

Spec == Init /\ [][Next]_vars

TypeOK ==
    /\ pc \in {"idle", "awaiting", "closed"}
    /\ caller \in {"session", "api"}
    /\ state.current_stage \in TutoringStage
    /\ state.attempt_count \in Int
    /\ Len(state.student_work_history) <= MaxHistory

(* ------------------- the Streamlit page: operations -------------------- *)

strong_correct_indicators ==
    { "that's correct", "is correct", "you're correct",
      "that's the right answer", "the right answer",
      "you got it", "you nailed it", "exactly right",
      "you solved it", "problem solved", "well done",
      "great work", "perfect", "nice work", "good job" }

incorrect_indicators ==
    { "not quite", "not correct", "incorrect", "try again", "not right",
      "that's not", "wrong", "close but", "almost", "not exactly",
      "let's think", "think about", "check your", "look again",
      "careful", "watch out", "hmm", "are you sure" }

\* fault: the rejection phrases are consulted first
is_correct_response_rejection_first(r) ==
    LET response_lower == Lower(r)
    IN  IF \E phrase \in incorrect_indicators : Contains(response_lower, phrase)
        THEN FALSE
        ELSE IF \E phrase \in strong_correct_indicators : Contains(response_lower, phrase)
        THEN TRUE
        ELSE FALSE

is_correct_response(r) ==
    LET response_lower == Lower(r)
    IN  IF \E phrase \in strong_correct_indicators : Contains(response_lower, phrase)
        THEN TRUE
        ELSE IF \E phrase \in incorrect_indicators : Contains(response_lower, phrase)
        THEN FALSE
        ELSE FALSE

\* the classifier tabulated over the explored replies
CorrectResponses == {r \in UiResponses : is_correct_response(r)}

\* firebase_config.update_currency, for one caller at a time
update_currency(d, user_id, amount) ==
    IF user_id \notin DOMAIN d
    THEN d
    ELSE [ d EXCEPT ![user_id].currency = @ + amount ]

\* what update_currency returns: False when get_user_data finds no record
update_currency_returns(d, user_id) == user_id \in DOMAIN d

\* firebase_config.increment_solved_questions, for one caller at a time
increment_solved_questions(d, user_id) ==
    [ d EXCEPT ![user_id].solved_questions = @ + 1 ]

\* item_id in inventory
Owns(inventory, item_id) == \E k \in 1..Len(inventory) : inventory[k] = item_id

\* a purchase that ends at one of the early returns: nothing is written
Refused(d, message) == [ db |-> d, success |-> FALSE, message |-> message ]

\* purchase_item without the currency check of lines 229-230
purchase_item_no_balance_check(d, user_id, item_id, price) ==
    IF user_id \notin DOMAIN d
    THEN Refused(d, "User not found")
    ELSE IF Owns(d[user_id].inventory, item_id)
    THEN Refused(d, "You already own this item!")
    ELSE [ db |-> [ d EXCEPT ![user_id].currency = @ - price,
                             ![user_id].inventory = Append(@, item_id) ],
           success |-> TRUE,
           message |-> "Item purchased!" ]

\* firebase_config.purchase_item, for one caller at a time: the record after
\* the call and the dict it returns
purchase_item(d, user_id, item_id, price) ==
    IF user_id \notin DOMAIN d
    THEN Refused(d, "User not found")
    ELSE IF Owns(d[user_id].inventory, item_id)
    THEN Refused(d, "You already own this item!")
    ELSE IF d[user_id].currency < price
    THEN Refused(d, "Not enough fish!")
    ELSE [ db |-> [ d EXCEPT ![user_id].currency = @ - price,
                             ![user_id].inventory = Append(@, item_id) ],
           success |-> TRUE,
           message |-> "Item purchased!" ]

\* st.session_state.questions[st.session_state.current_question_idx]
current_q(ss) == ss.questions[ss.current_question_idx + 1]

\* f"{current_question_idx}_{current_q.number}"
question_key(ss) == <<ss.current_question_idx, current_q(ss).number>>

\* a page world: the session state, the database and the calls made to it
World(ss, d, calls) == [ ss |-> ss, db |-> d, calls |-> calls ]

\* lines 521-527 and 559-564: coins for a question not rewarded before
AwardCoins(w) ==
    IF w.ss.user_id # None /\ question_key(w.ss) \notin w.ss.rewarded_questions
    THEN World([ w.ss EXCEPT !.rewarded_questions = @ \cup {question_key(w.ss)} ],
               increment_solved_questions(update_currency(w.db, w.ss.user_id, 5),
                                          w.ss.user_id),
               [ w.calls EXCEPT ![<<w.ss.user_id, ProblemOf(w.ss)>>] = @ + 1 ])
    ELSE w

\* lines 511-514 and 549-552: the turn is shown and counted
RecordTurn(ss, message, reply) ==
    [ ss EXCEPT !.chat_history =
                    Append(Append(@, <<"You", message>>), <<"Coach", reply>>),
                !.attempt_count = @ + 1 ]

\* fault: a confirmed answer does not open the explanation phase
SendVerdict_sets_one_flag(w, reply) ==
    IF reply \in CorrectResponses
    THEN IF ~w.ss.answer_is_correct
         THEN AwardCoins(
                 [ w EXCEPT !.ss.answer_is_correct = TRUE,
                            !.ss.correct_questions =
                                @ \cup {w.ss.current_question_idx} ])
         ELSE w
    ELSE w

\* Send to Coach, lines 516-527: the verdict on the reply
SendVerdict(w, reply) ==
    IF reply \in CorrectResponses
    THEN IF ~w.ss.answer_is_correct
         THEN AwardCoins(
                 [ w EXCEPT !.ss.answer_is_correct = TRUE,
                            !.ss.awaiting_explanation = TRUE,
                            !.ss.correct_questions =
                                @ \cup {w.ss.current_question_idx} ])
         ELSE w
    ELSE w

\* Submit Answer, lines 554-564: the verdict on the reply
SubmitVerdict(w, reply) ==
    IF reply \in CorrectResponses
    THEN AwardCoins(
            [ w EXCEPT !.ss.answer_is_correct = TRUE,
                       !.ss.awaiting_explanation = TRUE,
                       !.ss.correct_questions =
                           @ \cup {w.ss.current_question_idx} ])
    ELSE w

\* fault: the explanation phase survives a change of question
GoToQuestion_keeps_awaiting(ss, i) ==
    [ ss EXCEPT !.current_question_idx = i,
                !.chat_history = << >>,
                !.attempt_count = 0,
                !.answer_is_correct = FALSE ]

\* fault: the question's number is stored where its index is expected
GoToQuestion_by_number(ss, i) ==
    [ ss EXCEPT !.current_question_idx = ss.questions[i + 1].number,
                !.chat_history = << >>,
                !.attempt_count = 0,
                !.answer_is_correct = FALSE,
                !.awaiting_explanation = FALSE ]

\* lines 424-429, 624-629, 633-638: another question becomes current
GoToQuestion(ss, i) ==
    [ ss EXCEPT !.current_question_idx = i,
                !.chat_history = << >>,
                !.attempt_count = 0,
                !.answer_is_correct = FALSE,
                !.awaiting_explanation = FALSE ]

\* Parse Image, lines 369-381: a new question list replaces the old one
LoadQuestions(ss, questions) ==
    [ ss EXCEPT !.questions = questions,
                !.current_question_idx = 0,
                !.chat_history = << >>,
                !.attempt_count = 0,
                !.correct_questions = {},
                !.answer_is_correct = FALSE,
                !.awaiting_explanation = FALSE,
                !.using_sample_questions = FALSE ]

\* fault: a revealed answer is taken for a solved one
RevealShown_marks_correct(ss, reply) ==
    [ ss EXCEPT !.chat_history =
                    Append(Append(@, <<"You", "Please reveal the answer">>),
                           <<"Coach", reply>>),
                !.answer_is_correct = TRUE,
                !.awaiting_explanation = TRUE,
                !.correct_questions = @ \cup {ss.current_question_idx} ]

\* Reveal Answer, lines 570-584
RevealShown(ss, reply) ==
    [ ss EXCEPT !.chat_history =
                    Append(Append(@, <<"You", "Please reveal the answer">>),
                           <<"Coach", reply>>),
                !.correct_questions = @ \cup {ss.current_question_idx} ]

\* the message Submit Answer sends, lines 532-537
SubmitMessage(q, selected_choice, user_input) ==
    IF q.question_type = "mcq" /\ q.choices # << >>
    THEN "My answer is " \o selected_choice
    ELSE "My answer is: " \o user_input

\* process_turn's parameters, and those without a default (main.py 627-635)
process_turn_parameters ==
    { "problem", "student_message", "attempt_count", "reveal_now",
      "student_age_band", "confidence_signal", "problem_id" }
process_turn_required == { "problem", "student_message" }

\* what process_turn returns: a str, which has no fields
process_turn_returns == [ type |-> "str", fields |-> {} ]

\* the keyword arguments of the page's calls of process_turn
ProcessTurnCallSites ==
    { [ site |-> "get_coach_response",
        keywords |-> { "problem", "student_message", "attempt_count",
                       "correct_answer", "answer_is_correct",
                       "awaiting_explanation" } ],
      [ site |-> "reveal",
        keywords |-> { "problem", "student_message", "attempt_count",
                       "reveal_now", "correct_answer" } ] }

\* Python's binding of a call by keywords: an unknown or a missing keyword
\* raises TypeError before the body runs
process_turn(keywords) ==
    IF keywords \subseteq process_turn_parameters
       /\ process_turn_required \subseteq keywords
    THEN [ raised |-> None, returned |-> process_turn_returns ]
    ELSE [ raised |-> "TypeError", returned |-> None ]

\* the page's call through get_coach_response (Send, Submit, Start with Coach)
GetCoachResponseCall ==
    [ fn |-> "process_turn",
      arg |-> CHOOSE c \in ProcessTurnCallSites : c.site = "get_coach_response" ]

\* the page's call on the Reveal path: the only one that passes reveal_now,
\* and it passes True
RevealCall ==
    [ fn |-> "process_turn",
      arg |-> CHOOSE c \in ProcessTurnCallSites : c.site = "reveal" ]

(* -------------------- the Streamlit page: actions ---------------------- *)

\* what st.radio returns: the choice it preselects (the first); no radio is
\* shown for a question without choices
SelectedChoices(q) ==
    IF q.choices = << >> THEN {None} ELSE {q.choices[1]}

\* the practice page is shown with a current question
OnQuestion ==
    /\ session_state.logged_in
    /\ session_state.questions # << >>

\* room for one more rewarded turn within the explored balances
CoinsBelowCap == \A u \in Users : db[u].currency + 5 <= MaxCoins

SignIn ==
    /\ ~session_state.logged_in
    /\ \E u \in Users :
          session_state' = [ session_state EXCEPT !.logged_in = TRUE, !.user_id = u ]
    /\ UNCHANGED <<db, reward_calls>>
    /\ UNCHANGED coachVars
    /\ UNCHANGED tasks
    /\ UNCHANGED fnVars

ContinueAsGuest ==
    /\ ~session_state.logged_in
    /\ session_state' = [ session_state EXCEPT !.logged_in = TRUE, !.user_id = None ]
    /\ UNCHANGED <<db, reward_calls>>
    /\ UNCHANGED coachVars
    /\ UNCHANGED tasks
    /\ UNCHANGED fnVars

\* profile page, lines 786-791
SignOut ==
    /\ session_state.logged_in
    /\ session_state.user_id # None
    /\ session_state' = [ session_state EXCEPT !.logged_in = FALSE,
                                               !.user_id = None,
                                               !.rewarded_questions = {} ]
    /\ UNCHANGED <<db, reward_calls>>
    /\ UNCHANGED coachVars
    /\ UNCHANGED tasks
    /\ UNCHANGED fnVars

\* profile page of a guest, lines 767-769
GuestToLogin ==
    /\ session_state.logged_in
    /\ session_state.user_id = None
    /\ session_state' = [ session_state EXCEPT !.logged_in = FALSE ]
    /\ UNCHANGED <<db, reward_calls>>
    /\ UNCHANGED coachVars
    /\ UNCHANGED tasks
    /\ UNCHANGED fnVars

ParseImage ==
    /\ session_state.logged_in
    /\ \E qs \in UploadedQuestionLists :
          session_state' = LoadQuestions(session_state, qs)
    /\ UNCHANGED <<db, reward_calls>>
    /\ UNCHANGED coachVars
    /\ UNCHANGED tasks
    /\ UNCHANGED fnVars

SelectQuestion ==
    /\ OnQuestion
    /\ \E i \in 0..(Len(session_state.questions) - 1) :
          /\ i <= MaxQuestionIdx
          /\ session_state' = GoToQuestion(session_state, i)
    /\ UNCHANGED <<db, reward_calls>>
    /\ UNCHANGED coachVars
    /\ UNCHANGED tasks
    /\ UNCHANGED fnVars

PreviousQuestion ==
    /\ OnQuestion
    /\ session_state.current_question_idx > 0
    /\ session_state' =
          GoToQuestion(session_state, session_state.current_question_idx - 1)
    /\ UNCHANGED <<db, reward_calls>>
    /\ UNCHANGED coachVars
    /\ UNCHANGED tasks
    /\ UNCHANGED fnVars

NextQuestion ==
    /\ OnQuestion
    /\ session_state.current_question_idx < Len(session_state.questions) - 1
    /\ session_state.current_question_idx < MaxQuestionIdx
    /\ session_state' =
          GoToQuestion(session_state, session_state.current_question_idx + 1)
    /\ UNCHANGED <<db, reward_calls>>
    /\ UNCHANGED coachVars
    /\ UNCHANGED tasks
    /\ UNCHANGED fnVars

\* Send to Coach with a non-empty text, lines 501-529
SendToCoach ==
    /\ OnQuestion
    /\ Len(session_state.chat_history) + 2 <= MaxChat
    /\ CoinsBelowCap
    /\ \E user_input \in UserInputs, reply \in UiResponses :
          LET w == SendVerdict(
                      World(RecordTurn(session_state, user_input, reply),
                            db, reward_calls),
                      reply)
          IN  /\ session_state' = w.ss
              /\ db' = w.db
              /\ reward_calls' = w.calls
    /\ UNCHANGED coachVars
    /\ UNCHANGED tasks
    /\ call' = GetCoachResponseCall
    /\ UNCHANGED result

\* Submit Answer with an answer to submit, lines 531-566
SubmitAnswer ==
    /\ OnQuestion
    /\ Len(session_state.chat_history) + 2 <= MaxChat
    /\ CoinsBelowCap
    /\ LET q == current_q(session_state)
       IN  \E selected_choice \in SelectedChoices(q),
              user_input \in UserInputs, reply \in UiResponses :
              LET message == SubmitMessage(q, selected_choice, user_input)
                  w == SubmitVerdict(
                          World(RecordTurn(session_state, message, reply),
                                db, reward_calls),
                          reply)
              IN  /\ session_state' = w.ss
                  /\ db' = w.db
                  /\ reward_calls' = w.calls
    /\ UNCHANGED coachVars
    /\ UNCHANGED tasks
    /\ call' = GetCoachResponseCall
    /\ UNCHANGED result

\* fault: the Reveal button is never disabled
RevealAnswer_ungated ==
    /\ OnQuestion
    /\ Len(session_state.chat_history) + 2 <= MaxChat
    /\ \E reply \in UiResponses :
          session_state' = RevealShown(session_state, reply)
    /\ UNCHANGED <<db, reward_calls>>
    /\ UNCHANGED coachVars
    /\ UNCHANGED tasks
    /\ call' = RevealCall
    /\ UNCHANGED result

\* Reveal Answer, enabled from the third attempt on, lines 488-491 and 570-584
RevealAnswer ==
    /\ OnQuestion
    /\ ~(session_state.attempt_count < 3)
    /\ Len(session_state.chat_history) + 2 <= MaxChat
    /\ \E reply \in UiResponses :
          session_state' = RevealShown(session_state, reply)
    /\ UNCHANGED <<db, reward_calls>>
    /\ UNCHANGED coachVars
    /\ UNCHANGED tasks
    /\ call' = RevealCall
    /\ UNCHANGED result

\* Start with Coach, offered while the chat is empty, lines 593-602
StartWithCoach ==
    /\ OnQuestion
    /\ session_state.chat_history = << >>
    /\ \E reply \in UiResponses :
          session_state' = [ session_state EXCEPT
                               !.chat_history = Append(@, <<"Coach", reply>>) ]
    /\ UNCHANGED <<db, reward_calls>>
    /\ UNCHANGED coachVars
    /\ UNCHANGED tasks
    /\ call' = GetCoachResponseCall
    /\ UNCHANGED result

InitUI ==
    /\ state = TutoringState
    /\ caller = "api"
    /\ pc = "closed"
    /\ student_message = ""
    /\ turn_entry = TutoringState
    /\ response = ""
    /\ session_state = init_session_state
    /\ db = [u \in Users |-> NewUserData]
    /\ reward_calls = NoRewardCalls
    /\ call = NoCall
    /\ result = None
    /\ tasks = NoTasks

NextUI ==
    \/ SignIn
    \/ ContinueAsGuest
    \/ SignOut
    \/ GuestToLogin
    \/ ParseImage
    \/ PreviousQuestion
    \/ NextQuestion
    \/ SelectQuestion
    \/ SendToCoach
    \/ SubmitAnswer
    \/ RevealAnswer
    \/ StartWithCoach

SpecUI == InitUI /\ [][NextUI]_vars

(* --------------------- the functions, called alone --------------------- *)

\* coach replies handed to is_correct_response: an opening, a body, a closing
ReplyOpenings == { "", "Hmm, ", "Not quite. ", "OK. " }
ReplyBodies ==
    { "That's correct!", "You nailed it.", "PERFECT", "Keep going.",
      "What is x", "Incorrect." }
ReplyClosings ==
    { "", " Can you walk me through it?", " Try again.", " Are you sure?" }
FnReplies ==
    { o \o b \o c : o \in ReplyOpenings, b \in ReplyBodies, c \in ReplyClosings }

\* student messages handed to the message classifiers, bare and padded
MsgCores ==
    non_substantive \cup
    { "Hi", "HELLO", "ok", "no", "1+", "x=", "=5", "2+3", "7-1", "3*4", "6/2",
      "X = 5", "Is it 5?", "It's not 5", "I BELIEVE not", "hi, first I add 2",
      "I'm stuck on the sign", "why not", "maybe three", "the total" }
MsgPads == { "", " " }
FnMsgs == { a \o m \o b : a \in MsgPads, m \in MsgCores, b \in MsgPads }

\* the classifiers tabulated over these inputs
FnCorrectReplies == {r \in FnReplies : is_correct_response(r)}
FnSubstantiveMsgs == {m \in FnMsgs : _is_substantive_attempt(m)}
FnClaimMsgs == {m \in FnMsgs : _detect_answer_claim(m)}

Call_is_correct_response ==
    /\ \E r \in FnReplies :
          /\ call' = [ fn |-> "is_correct_response", arg |-> r ]
          /\ result' = (r \in FnCorrectReplies)
    /\ UNCHANGED coachVars
    /\ UNCHANGED tasks
    /\ UNCHANGED uiVars

Call_is_substantive_attempt ==
    /\ \E m \in FnMsgs :
          /\ call' = [ fn |-> "_is_substantive_attempt", arg |-> m ]
          /\ result' = (m \in FnSubstantiveMsgs)
    /\ UNCHANGED coachVars
    /\ UNCHANGED tasks
    /\ UNCHANGED uiVars

Call_detect_answer_claim ==
    /\ \E m \in FnMsgs :
          /\ call' = [ fn |-> "_detect_answer_claim", arg |-> m ]
          /\ result' = (m \in FnClaimMsgs)
    /\ UNCHANGED coachVars
    /\ UNCHANGED tasks
    /\ UNCHANGED uiVars

Call_process_turn ==
    /\ \E c \in ProcessTurnCallSites :
          /\ call' = [ fn |-> "process_turn", arg |-> c ]
          /\ result' = process_turn(c.keywords)
    /\ UNCHANGED coachVars
    /\ UNCHANGED tasks
    /\ UNCHANGED uiVars

InitFn == InitUI

NextFn ==
    \/ Call_is_correct_response
    \/ Call_is_substantive_attempt
    \/ Call_detect_answer_claim
    \/ Call_process_turn

SpecFn == InitFn /\ [][NextFn]_vars

(* ------------------- the shop: one caller at a time -------------------- *)

\* the signed-in user and an id with no record under users/
ShopUsers == Users \cup {"u2"}

\* three accessories of ACCESSORIES
ShopItems == {"party_hat", "nerdy_glasses", "bow_tie"}

\* their prices, and a free item
ShopPrices == {0, 15, 20, 25}

\* amounts added to a balance: nothing, the reward of a solved question, more
ShopAmounts == {0, 5, 15}

\* update_currency(user_id, amount); get_db() may return None
ShopUpdateCurrency ==
    /\ \E user_id \in ShopUsers, amount \in ShopAmounts, available \in BOOLEAN :
          /\ user_id \in DOMAIN db => db[user_id].currency + amount <= MaxBalance
          /\ call' = [ fn |-> "update_currency",
                       arg |-> [ user_id |-> user_id, amount |-> amount ] ]
          /\ result' = (available /\ update_currency_returns(db, user_id))
          /\ db' = IF available THEN update_currency(db, user_id, amount) ELSE db
    /\ UNCHANGED coachVars
    /\ UNCHANGED <<session_state, reward_calls, tasks>>

\* purchase_item(user_id, item_id, price); get_db() may return None
ShopPurchaseItem ==
    /\ \E user_id \in ShopUsers, item_id \in ShopItems, price \in ShopPrices,
          available \in BOOLEAN :
          LET r == IF available
                   THEN purchase_item(db, user_id, item_id, price)
                   ELSE Refused(db, "Database not available")
          IN  /\ call' = [ fn |-> "purchase_item",
                           arg |-> [ user_id |-> user_id, item_id |-> item_id,
                                     price |-> price ] ]
              /\ result' = [ success |-> r.success, message |-> r.message ]
              /\ db' = r.db
    /\ UNCHANGED coachVars
    /\ UNCHANGED <<session_state, reward_calls, tasks>>

InitShop == InitUI

NextShop ==
    \/ ShopUpdateCurrency
    \/ ShopPurchaseItem

SpecShop == InitShop /\ [][NextShop]_vars

(* ------------------ the shop: two callers side by side ----------------- *)

\* the balance of the user when the two calls begin
RaceBalances == {0, 20, 30}

\* the user both calls are for
RaceUser == CHOOSE u \in Users : TRUE

\* a call that has not run its first line yet
Ready(fn, arg) ==
    [ fn |-> fn, arg |-> arg, pc |-> "ready", current_data |-> None,
      returned |-> None ]

\* update_currency calls for the user
RaceUpdates ==
    { Ready("update_currency", [ user_id |-> RaceUser, amount |-> amount ]) :
        amount \in {5, 10} }

\* purchase_item calls for the user, at the prices of the shop
RacePurchases ==
    { Ready("purchase_item", c) :
        c \in { [ user_id |-> RaceUser, item_id |-> "party_hat", price |-> 15 ],
                [ user_id |-> RaceUser, item_id |-> "bow_tie", price |-> 25 ] } }

\* lines 175-177: current_data = get_user_data(user_id)
UpdateCurrencyRead ==
    \E i \in DOMAIN tasks.calls :
        LET t == tasks.calls[i]
        IN  /\ t.fn = "update_currency"
            /\ t.pc = "ready"
            /\ tasks' = [ tasks EXCEPT !.calls[i] =
                            IF t.arg.user_id \in DOMAIN db
                            THEN [ t EXCEPT !.pc = "read",
                                            !.current_data = db[t.arg.user_id] ]
                            ELSE [ t EXCEPT !.pc = "done", !.returned = FALSE ] ]
            /\ UNCHANGED db
            /\ UNCHANGED coachVars
            /\ UNCHANGED <<session_state, reward_calls>>
            /\ UNCHANGED fnVars

\* lines 179-183: the balance read plus the amount is written, True returned
UpdateCurrencyWrite ==
    \E i \in DOMAIN tasks.calls :
        LET t == tasks.calls[i]
        IN  /\ t.fn = "update_currency"
            /\ t.pc = "read"
            /\ db' = [ db EXCEPT ![t.arg.user_id].currency =
                                    t.current_data.currency + t.arg.amount ]
            /\ tasks' = [ tasks EXCEPT !.calls[i] =
                            [ t EXCEPT !.pc = "done", !.returned = TRUE ] ]
            /\ UNCHANGED coachVars
            /\ UNCHANGED <<session_state, reward_calls>>
            /\ UNCHANGED fnVars

\* lines 220-233: user_data = get_user_data(user_id) and the two checks
PurchaseItemRead ==
    \E i \in DOMAIN tasks.calls :
        LET t == tasks.calls[i]
            refusal ==
                IF t.arg.user_id \notin DOMAIN db
                THEN "User not found"
                ELSE IF Owns(db[t.arg.user_id].inventory, t.arg.item_id)
                THEN "You already own this item!"
                ELSE IF db[t.arg.user_id].currency < t.arg.price
                THEN "Not enough fish!"
                ELSE None
        IN  /\ t.fn = "purchase_item"
            /\ t.pc = "ready"
            /\ tasks' = [ tasks EXCEPT !.calls[i] =
                            IF refusal = None
                            THEN [ t EXCEPT !.pc = "read",
                                            !.current_data = db[t.arg.user_id] ]
                            ELSE [ t EXCEPT !.pc = "done",
                                            !.returned = [ success |-> FALSE,
                                                           message |-> refusal ] ] ]
            /\ UNCHANGED db
            /\ UNCHANGED coachVars
            /\ UNCHANGED <<session_state, reward_calls>>
            /\ UNCHANGED fnVars

\* lines 236-244: the balance read minus the price and the inventory read
\* with the item appended are written in one update
PurchaseItemWrite ==
    \E i \in DOMAIN tasks.calls :
        LET t == tasks.calls[i]
        IN  /\ t.fn = "purchase_item"
            /\ t.pc = "read"
            /\ db' = [ db EXCEPT ![t.arg.user_id].currency =
                                    t.current_data.currency - t.arg.price,
                                 ![t.arg.user_id].inventory =
                                    Append(t.current_data.inventory, t.arg.item_id) ]
            /\ tasks' = [ tasks EXCEPT !.calls[i] =
                            [ t EXCEPT !.pc = "done",
                                       !.returned = [ success |-> TRUE,
                                                      message |-> "Item purchased!" ] ] ]
            /\ UNCHANGED coachVars
            /\ UNCHANGED <<session_state, reward_calls>>
            /\ UNCHANGED fnVars

\* an update_currency call and a second call begin together on one record
InitRace ==
    /\ state = TutoringState
    /\ caller = "api"
    /\ pc = "closed"
    /\ student_message = ""
    /\ turn_entry = TutoringState
    /\ response = ""
    /\ session_state = init_session_state
    /\ reward_calls = NoRewardCalls
    /\ call = NoCall
    /\ result = None
    /\ \E balance \in RaceBalances :
          /\ db = [ u \in Users |-> [ NewUserData EXCEPT !.currency = balance ] ]
          /\ \E first \in RaceUpdates, second \in RaceUpdates \cup RacePurchases :
                tasks = [ start |-> balance, calls |-> <<first, second>> ]

NextRace ==
    \/ UpdateCurrencyRead
    \/ UpdateCurrencyWrite
    \/ PurchaseItemRead
    \/ PurchaseItemWrite

SpecRace == InitRace /\ [][NextRace]_vars

(* ----------------------------- properties ------------------------------ *)

\* While the generator call is in flight the state holds the stage that
\* _determine_stage computed for student_message, the attempt_count and the
\* flags it computed it from, and turn_entry holds the state the turn began in.
InTurn == pc = "awaiting"

\* counter update (c) applies to the state the turn began in
ValidationResolved ==
    /\ turn_entry.current_stage = STAGE_2_VALIDATION
    /\ turn_entry.answer_validated
    /\ ~turn_entry.problem_solved

\* C1: in a session of set_problem, force_reveal, mark_correct and respond
\* calls, a turn's stage is REVEAL only if reveal_now or problem_solved holds
\* (no attempt count reveals by itself).
C1_NoAutoReveal ==
    (InTurn /\ caller = "session" /\ state.current_stage = STAGE_5_REVEAL)
        => (state.reveal_now \/ state.problem_solved)

\* C2: with reveal_now and problem_solved false, attempt_count >= 5 and a
\* message that is no answer claim, the turn's stage is EXTENDED_HELP (4).
C2_ExtendedHelp ==
    (InTurn /\ ~state.reveal_now /\ ~state.problem_solved
            /\ state.attempt_count >= 5 /\ student_message \notin ClaimMsgs)
        => state.current_stage = STAGE_4_FINAL_HINT

\* C3: whenever reveal_now is true the turn's stage is REVEAL, for every
\* attempt_count, message and value of the other flags.
C3_RevealNowForcesReveal ==
    (InTurn /\ state.reveal_now) => state.current_stage = STAGE_5_REVEAL

C3_Witness ==
    /\ InTurn
    /\ state.reveal_now
    /\ state.attempt_count = 0
    /\ ~state.problem_solved
    /\ student_message \in ClaimMsgs
    /\ state.current_stage = STAGE_5_REVEAL

\* C4: with reveal_now and problem_solved false and attempt_count 0 at stage
\* determination, the turn's stage is SETUP for every message, answer claims
\* included, and student_claimed_answer is not set.
C4_SetupAtZeroAttempts ==
    (InTurn /\ ~state.reveal_now /\ ~state.problem_solved
            /\ state.attempt_count = 0)
        => /\ state.current_stage = STAGE_0_SETUP
           /\ state.student_claimed_answer = turn_entry.student_claimed_answer

C4_Witness ==
    /\ InTurn
    /\ ~state.reveal_now
    /\ ~state.problem_solved
    /\ state.attempt_count = 0
    /\ student_message \in ClaimMsgs
    /\ state.current_stage = STAGE_0_SETUP

\* C5: once problem_solved is true, every later turn's stage is REVEAL, for
\* every message and attempt_count, and problem_solved stays true until the
\* next set_problem.
C5_SolvedStaysReveal ==
    /\ []((InTurn /\ state.problem_solved) => state.current_stage = STAGE_5_REVEAL)
    /\ [][(state.problem_solved /\ ~state'.problem_solved)
              => state' = set_problem(state, state'.problem)]_vars

C5_Witness ==
    /\ InTurn
    /\ state.problem_solved
    /\ ~state.reveal_now
    /\ state.attempt_count \in 1..4
    /\ Len(state.student_work_history) >= 3
    /\ state.current_stage = STAGE_5_REVEAL

\* C6: in every reachable state, problem_solved implies that the stored
\* stage is REVEAL.
C6_SolvedImpliesStoredReveal ==
    state.problem_solved => state.current_stage = STAGE_5_REVEAL

\* C7: with reveal_now and problem_solved false, attempt_count >= 1 (5 or
\* more included), an answer-claim message and answer_validated false, the
\* turn's stage is VALIDATION and student_claimed_answer is true.
C7_ClaimBeatsEveryBand ==
    (InTurn /\ ~state.reveal_now /\ ~state.problem_solved
            /\ state.attempt_count >= 1
            /\ student_message \in ClaimMsgs /\ ~state.answer_validated)
        => /\ state.current_stage = STAGE_2_VALIDATION
           /\ state.student_claimed_answer

\* C8: with reveal_now and problem_solved false and the answer-claim rule
\* not firing, the turn's stage is FIRST_ATTEMPT for attempt_count 1..2 and
\* DIAGNOSE for 3..4, and stage determination leaves student_claimed_answer
\* as the counter updates left it.
C8_AttemptBands ==
    (InTurn /\ ~state.reveal_now /\ ~state.problem_solved
            /\ ~(student_message \in ClaimMsgs /\ ~state.answer_validated))
        => /\ state.attempt_count \in {1, 2}
                => state.current_stage = STAGE_1_FIRST_ATTEMPT
           /\ state.attempt_count \in {3, 4}
                => state.current_stage = STAGE_3_DIAGNOSE
           /\ state.attempt_count \in 1..4
                => state.student_claimed_answer =
                      (IF ValidationResolved THEN FALSE
                       ELSE turn_entry.student_claimed_answer)

C8_Witness ==
    /\ InTurn
    /\ ~state.reveal_now
    /\ ~state.problem_solved
    /\ student_message \notin ClaimMsgs
    /\ state.attempt_count = 3
    /\ state.current_stage = STAGE_3_DIAGNOSE

C10_ValidationResolution ==
    InTurn =>
        IF ValidationResolved
        THEN /\ state.attempt_count = turn_entry.attempt_count + 1
             /\ ~state.answer_validated
             /\ state.current_stage # STAGE_2_VALIDATION
                   => ~state.student_claimed_answer
        ELSE /\ turn_entry.attempt_count # 0
                   => state.attempt_count = turn_entry.attempt_count
             /\ state.answer_validated = turn_entry.answer_validated
             /\ state.current_stage # STAGE_2_VALIDATION
                   => state.student_claimed_answer
                         = turn_entry.student_claimed_answer

C10_Witness ==
    /\ InTurn
    /\ ValidationResolved
    /\ turn_entry.student_claimed_answer
    /\ state.attempt_count = turn_entry.attempt_count + 1
    /\ ~state.answer_validated
    /\ ~state.student_claimed_answer

\* C11: when the generator reply arrives, answer_validated becomes true if
\* and only if the turn's stage is VALIDATION, whatever the reply says; on a
\* turn of any other stage the step leaves answer_validated, and the rest of
\* the state, as it was.
C11_PostResponse ==
    [][GeneratorReply =>
          /\ state'.answer_validated =
                (IF state.current_stage = STAGE_2_VALIDATION
                 THEN TRUE ELSE state.answer_validated)
          /\ state' = [state EXCEPT !.answer_validated = state'.answer_validated]
          /\ response' \in {Strip(r) : r \in Replies}]_vars

C11_Witness ==
    /\ pc = "idle"
    /\ response = "Hmm, not quite - check your sign."
    /\ state.current_stage = STAGE_2_VALIDATION
    /\ state.answer_validated
    /\ state.student_claimed_answer

\* C12: from a fresh problem, a substantive non-claim message gives
\* attempt_count 1 and stage FIRST_ATTEMPT; a following answer claim gives
\* stage VALIDATION with student_claimed_answer true and attempt_count still
\* 1, also after its reply; the turn after the validated claim gives
\* attempt_count 2 with answer_validated and student_claimed_answer reset
\* before the stage is determined (the increment comes one turn late).
C12_OneTurnDelayedIncrement ==
    LET h == state.student_work_history
    IN  (/\ caller = "session"
         /\ ~state.reveal_now /\ ~state.problem_solved
         /\ Len(h) >= 1
         /\ h[1] \in SubstantiveMsgs \ ClaimMsgs)
        => /\ (InTurn /\ Len(h) = 1)
                => /\ state.attempt_count = 1
                   /\ state.current_stage = STAGE_1_FIRST_ATTEMPT
           /\ (Len(h) = 2 /\ h[2] \in ClaimMsgs)
                => /\ state.attempt_count = 1
                   /\ state.current_stage = STAGE_2_VALIDATION
                   /\ state.student_claimed_answer
           /\ (InTurn /\ Len(h) = 3 /\ h[2] \in ClaimMsgs
                      /\ turn_entry.answer_validated)
                => /\ turn_entry.attempt_count = 1
                   /\ state.attempt_count = 2
                   /\ ~state.answer_validated
                   /\ state.student_claimed_answer
                         = (state.current_stage = STAGE_2_VALIDATION)

C12_Witness ==
    LET h == state.student_work_history
    IN  /\ InTurn
        /\ caller = "session"
        /\ ~state.reveal_now /\ ~state.problem_solved
        /\ Len(h) = 3
        /\ h[1] \in SubstantiveMsgs \ ClaimMsgs
        /\ h[2] \in ClaimMsgs
        /\ turn_entry.answer_validated
        /\ turn_entry.student_claimed_answer
        /\ state.attempt_count = 2
        /\ ~state.student_claimed_answer

C14_AttemptCountMonotone ==
    /\ [](caller = "session" => state.attempt_count >= 0)
    /\ [][(caller = "session" /\ state'.attempt_count < state.attempt_count)
              => /\ state' = set_problem(state, state'.problem)
                 /\ state'.attempt_count = 0]_vars

C14_Witness ==
    /\ InTurn
    /\ caller = "session"
    /\ turn_entry.attempt_count = 3
    /\ turn_entry.reveal_now
    /\ turn_entry.problem_solved
    /\ state.attempt_count = 3

\* C15: in a session reveal_now, once true, stays true through every
\* respond, mark_correct and force_reveal call; only set_problem clears it.
C15_RevealNowSticky ==
    [][(caller = "session" /\ state.reveal_now /\ ~state'.reveal_now)
          => state' = set_problem(state, state'.problem)]_vars

C15_Witness ==
    /\ InTurn
    /\ caller = "session"
    /\ turn_entry.reveal_now
    /\ turn_entry.problem_solved
    /\ Len(turn_entry.student_work_history) >= 2
    /\ state.reveal_now

\* C16: set_problem, from any state, sets attempt_count to 0, the stage to
\* SETUP, reveal_now, student_claimed_answer, answer_validated and
\* problem_solved to false and empties the work history; in a session no
\* other operation brings attempt_count back to 0 or clears reveal_now or
\* problem_solved.
C16_SetProblemResets ==
    /\ [][SetProblem =>
            /\ state'.problem \in Problems
            /\ state'.attempt_count = 0
            /\ state'.current_stage = STAGE_0_SETUP
            /\ ~state'.reveal_now
            /\ ~state'.student_claimed_answer
            /\ ~state'.answer_validated
            /\ ~state'.problem_solved
            /\ state'.student_work_history = << >>]_vars
    /\ [][(/\ caller = "session"
           /\ \/ state.attempt_count # 0 /\ state'.attempt_count = 0
              \/ state.reveal_now /\ ~state'.reveal_now
              \/ state.problem_solved /\ ~state'.problem_solved)
              => SetProblem]_vars

C16_Witness ==
    /\ pc = "idle"
    /\ caller = "session"
    /\ state.problem = "2y = 8"
    /\ state.attempt_count = 0
    /\ state.current_stage = STAGE_0_SETUP
    /\ ~state.reveal_now
    /\ ~state.student_claimed_answer
    /\ ~state.answer_validated
    /\ ~state.problem_solved
    /\ state.student_work_history = << >>

\* C17: every respond call appends exactly the raw student message to the
\* work history, whatever the message and stage; in a session the history
\* otherwise changes only by being emptied by set_problem; and the turn's
\* counters, flags and stage are the same as for an empty history.
C17_HistoryAppendOnly ==
    /\ [](InTurn =>
            /\ state.student_work_history
                  = Append(turn_entry.student_work_history, student_message)
            /\ state = [ RespondBefore(
                           [turn_entry EXCEPT !.student_work_history = << >>],
                           student_message)
                         EXCEPT !.student_work_history = state.student_work_history ])
    /\ [][(caller = "session"
             /\ state'.student_work_history # state.student_work_history)
              => \/ pc' = "awaiting"
                 \/ SetProblem]_vars

C17_Witness ==
    /\ InTurn
    /\ caller = "session"
    /\ state.student_work_history = <<"hi", "Is it 5?", "X = 5">>
    /\ student_message = "X = 5"
    /\ state.attempt_count = 1
    /\ state.current_stage = STAGE_2_VALIDATION

(* ---------------------- properties of the page ------------------------- *)

\* a Send to Coach or Submit Answer turn: the only steps that count an attempt
CoachTurn == session_state'.attempt_count = session_state.attempt_count + 1

\* the coach's reply shown last in a chat
LastReply(ss) == ss.chat_history[Len(ss.chat_history)][2]

\* C18: in every reachable session state of the page (after any sequence of
\* Send, Submit Answer, Reveal, question selection, Previous/Next and upload
\* actions), awaiting_explanation implies answer_is_correct.
C18_AwaitingImpliesCorrect ==
    session_state.awaiting_explanation => session_state.answer_is_correct

C18_Witness ==
    /\ session_state.awaiting_explanation
    /\ session_state.answer_is_correct
    /\ session_state.current_question_idx = 1
    /\ session_state.attempt_count = 2
    /\ ~session_state.using_sample_questions

\* C19: on a Send or Submit turn whose reply is classified CORRECT while
\* answer_is_correct is false, answer_is_correct and awaiting_explanation are
\* both true afterwards; a turn whose reply is not classified CORRECT leaves
\* both flags as they were.
C19_FirstCorrectOpensExplanation ==
    [][CoachTurn =>
          LET correct == LastReply(session_state') \in CorrectResponses
          IN  /\ (correct /\ ~session_state.answer_is_correct)
                    => /\ session_state'.answer_is_correct
                       /\ session_state'.awaiting_explanation
              /\ ~correct
                    => /\ session_state'.answer_is_correct =
                             session_state.answer_is_correct
                       /\ session_state'.awaiting_explanation =
                             session_state.awaiting_explanation]_vars

C19_Witness ==
    /\ session_state.attempt_count = 2
    /\ Len(session_state.chat_history) = 4
    /\ session_state.chat_history[2][2] \notin CorrectResponses
    /\ session_state.chat_history[4][2] \in CorrectResponses
    /\ session_state.chat_history[3][2] = "hi"
    /\ session_state.answer_is_correct
    /\ session_state.awaiting_explanation

HasPhrase(text, phrases) == \E phrase \in phrases : Contains(Lower(text), phrase)

\* replies without a confirmation phrase: with a rejection phrase, with none
RejectedFnReplies ==
    { r \in FnReplies : /\ ~HasPhrase(r, strong_correct_indicators)
                        /\ HasPhrase(r, incorrect_indicators) }
NeutralFnReplies ==
    { r \in FnReplies : /\ ~HasPhrase(r, strong_correct_indicators)
                        /\ ~HasPhrase(r, incorrect_indicators) }

HasOperator(text) == \E op \in {"+", "-", "*", "/", "="} : Contains(text, op)

\* C22: is_correct_response answers CORRECT (True) for every reply that
\* contains a strong-confirmation phrase, also when a rejection or hedge phrase
\* or a follow-up question is in the reply as well.
C22_ConfirmationWins ==
    (call.fn = "is_correct_response"
        /\ HasPhrase(call.arg, strong_correct_indicators))
        => result = TRUE

C22_Witness ==
    /\ call = [ fn |-> "is_correct_response",
                arg |-> "Hmm, That's correct! Are you sure?" ]
    /\ HasPhrase(call.arg, incorrect_indicators)
    /\ result = TRUE

\* C23: the verdict on a reply with neither kind of phrase (NEUTRAL) differs
\* from the verdict on a reply with a rejection phrase and no confirmation
\* phrase (INCORRECT), so that a caller can tell the two apart.
C23_NeutralDiffersFromIncorrect ==
    [][(/\ call.fn = "is_correct_response"
        /\ call'.fn = "is_correct_response"
        /\ call.arg \in RejectedFnReplies
        /\ call'.arg \in NeutralFnReplies)
          => result' # result]_vars

\* C24 as stated: _is_substantive_attempt is false for every message of the
\* non-substantive list and true for every message that contains an
\* arithmetic operator, whatever its length.
C24_OperatorAlwaysSubstantive ==
    call.fn = "_is_substantive_attempt"
        => /\ call.arg \in non_substantive => result = FALSE
           /\ HasOperator(call.arg) => result = TRUE

\* C24, amended: _is_substantive_attempt is false for every message of the
\* non-substantive list and true for every message that contains an
\* arithmetic operator and has at least 3 characters once lower-cased and
\* trimmed.
C24_OperatorSubstantiveFromThreeChars ==
    call.fn = "_is_substantive_attempt"
        => /\ call.arg \in non_substantive => result = FALSE
           /\ (HasOperator(call.arg) /\ Len(Strip(Lower(call.arg))) >= 3)
                 => result = TRUE

C24_Witness ==
    /\ call = [ fn |-> "_is_substantive_attempt", arg |-> " 6/2" ]
    /\ result = TRUE

\* C25: _is_substantive_attempt works on the lower-cased, trimmed message: it
\* is false when that equals a non-substantive phrase or is shorter than 3,
\* and otherwise true exactly when it contains a substantive marker; a
\* message that only contains a non-substantive phrase is not rejected for
\* it. The call changes no state of the coach.
C25_SubstantiveRule ==
    /\ [](call.fn = "_is_substantive_attempt"
            => LET msg == Strip(Lower(call.arg))
               IN  result = (IF msg \in non_substantive \/ Len(msg) < 3
                             THEN FALSE
                             ELSE HasPhrase(msg, substantive_indicators)))
    /\ [][Call_is_substantive_attempt => UNCHANGED <<state, session_state>>]_vars

C25_Witness ==
    /\ call = [ fn |-> "_is_substantive_attempt", arg |-> "hi, first I add 2" ]
    /\ HasPhrase(call.arg, non_substantive)
    /\ result = TRUE

\* C26: _detect_answer_claim is true exactly when the lower-cased message
\* contains an indicator phrase; nothing handles negation, so a question
\* ("Is it 5?") and a negated statement with an indicator are claims.
C26_ClaimIffIndicator ==
    call.fn = "_detect_answer_claim"
        => result = HasPhrase(call.arg, answer_indicators)

C26_Witness ==
    /\ call = [ fn |-> "_detect_answer_claim", arg |-> "It's not 5" ]
    /\ result = TRUE

\* C27: every call of process_turn the page makes (through
\* get_coach_response and on the Reveal path) completes, and returns a
\* record with the fields response, answer_is_correct, awaiting_explanation
\* and problem_solved.
C27_ProcessTurnReturnsRecord ==
    call.fn = "process_turn"
        => /\ result.raised = None
           /\ result.returned.fields =
                 { "response", "answer_is_correct", "awaiting_explanation",
                   "problem_solved" }

(* ----------------- properties of failures and of counts ---------------- *)

\* C28: a turn processed with a negative attempt_count fails with an error;
\* it never completes normally.
C28_NegativeCountFailsFast ==
    [][~(GeneratorReply /\ state.attempt_count < 0)]_vars

\* C29: when the generator call of a respond fails, respond returns no text,
\* the post-response step is not applied (answer_validated is not set by the
\* turn), and the history append, the counter updates and the stage computed
\* for the turn stay in the state.
C29_FailureKeepsPreCallUpdates ==
    [][GeneratorFail =>
          /\ state = RespondBefore(turn_entry, student_message)
          /\ state' = state
          /\ response' = ""]_vars

C29_Witness ==
    /\ pc = "idle"
    /\ response = ""
    /\ state.current_stage = STAGE_2_VALIDATION
    /\ state.student_claimed_answer
    /\ ~state.answer_validated
    /\ state.attempt_count = 1
    /\ state.student_work_history = << "2+3", "X = 5" >>

ClaimRuleReached ==
    /\ InTurn
    /\ ~state.reveal_now
    /\ ~state.problem_solved
    /\ state.attempt_count \in 1..4

\* C31: in a session answer_validated is false whenever _determine_stage gets
\* to its answer-claim rule, so an answer claim sent while reveal_now and
\* problem_solved are false and attempt_count is in 1..4 yields VALIDATION,
\* also on the turn right after a VALIDATION turn.
C31_ClaimAlwaysValidated ==
    (caller = "session" /\ ClaimRuleReached)
        => /\ ~state.answer_validated
           /\ student_message \in ClaimMsgs
                 => state.current_stage = STAGE_2_VALIDATION

C31_Witness ==
    /\ caller = "session"
    /\ ClaimRuleReached
    /\ turn_entry.current_stage = STAGE_2_VALIDATION
    /\ turn_entry.answer_validated
    /\ student_message \in ClaimMsgs
    /\ state.attempt_count = 2
    /\ state.current_stage = STAGE_2_VALIDATION

\* C32: at the end of every respond call of a session that returns normally,
\* student_claimed_answer equals answer_validated.
C32_ClaimedEqualsValidated ==
    [][(GeneratorReply /\ caller = "session")
          => state'.student_claimed_answer = state'.answer_validated]_vars

\* C33: REVEAL is absorbing within a problem: a respond turn of a session that
\* starts from stage REVEAL (left by the turn before it or by force_reveal,
\* with no set_problem since) has stage REVEAL again, whatever the message
\* and whatever mark_correct and force_reveal calls were made.
C33_RevealAbsorbing ==
    (InTurn /\ caller = "session" /\ turn_entry.current_stage = STAGE_5_REVEAL)
        => state.current_stage = STAGE_5_REVEAL

C33_Witness ==
    /\ InTurn
    /\ caller = "session"
    /\ turn_entry.current_stage = STAGE_5_REVEAL
    /\ ~turn_entry.reveal_now
    /\ turn_entry.problem_solved
    /\ Len(turn_entry.student_work_history) = 3
    /\ student_message \in ClaimMsgs
    /\ state.current_stage = STAGE_5_REVEAL

\* the attempt_count a process_turn call works with
EffectiveAttemptCount(a, m) ==
    IF a = 0 /\ m \in SubstantiveMsgs THEN 1 ELSE a

\* the stage of a turn of a fresh coach, from the arguments of the call
StageOfArguments(a, r, m) ==
    LET n == EffectiveAttemptCount(a, m)
    IN  IF r \/ n >= 5 THEN STAGE_5_REVEAL
        ELSE IF n = 0 THEN STAGE_0_SETUP
        ELSE IF m \in ClaimMsgs THEN STAGE_2_VALIDATION
        ELSE IF n \in {1, 2} THEN STAGE_1_FIRST_ATTEMPT
        ELSE IF n \in {3, 4} THEN STAGE_3_DIAGNOSE
        ELSE STAGE_0_SETUP

\* C34: a process_turn call works on a fresh coach: the stage it finds is
\* SETUP, the validation-resolution increment never fires, the attempt_count
\* it works with is the supplied one (1 for a supplied 0 with a substantive
\* message), and the stage of the turn is a function of attempt_count,
\* reveal_now and the message alone.
C34_ProcessTurnStateless ==
    (InTurn /\ caller = "api")
        => /\ turn_entry.current_stage = STAGE_0_SETUP
           /\ ~ValidationResolved
           /\ state.attempt_count =
                 EffectiveAttemptCount(turn_entry.attempt_count, student_message)
           /\ state.current_stage =
                 StageOfArguments(turn_entry.attempt_count, turn_entry.reveal_now,
                                  student_message)

C34_Witness ==
    /\ InTurn
    /\ caller = "api"
    /\ turn_entry.attempt_count = 0
    /\ student_message \in SubstantiveMsgs \cap ClaimMsgs
    /\ state.attempt_count = 1
    /\ state.current_stage = STAGE_2_VALIDATION

(* ------------------ properties of reveal and navigation ---------------- *)

\* the page shows a new turn in the chat
TurnShown == Len(session_state'.chat_history) > Len(session_state.chat_history)

\* the page shows the turn of its Reveal action
RevealShownLast(ss) ==
    /\ Len(ss.chat_history) >= 2
    /\ ss.chat_history[Len(ss.chat_history) - 1] = <<"You", "Please reveal the answer">>

\* C35: the page passes reveal_now=True to process_turn only in its Reveal
\* action, and that action is taken only while the attempt_count of the
\* current question is at least 3; Send and Submit never pass reveal_now.
C35_RevealOnlyOnRequest ==
    [][TurnShown =>
          /\ "reveal_now" \in call'.arg.keywords
                => /\ RevealShownLast(session_state')
                   /\ session_state.attempt_count >= 3
          /\ CoachTurn => "reveal_now" \notin call'.arg.keywords]_vars

C35_Witness ==
    /\ call = RevealCall
    /\ RevealShownLast(session_state)
    /\ session_state.attempt_count = 3
    /\ session_state.user_id = None

\* C36: the Reveal action awards nothing: it calls neither update_currency
\* nor increment_solved_questions and leaves rewarded_questions,
\* answer_is_correct, awaiting_explanation and attempt_count as they were.
C36_RevealAwardsNothing ==
    [][RevealAnswer =>
          /\ db' = db
          /\ reward_calls' = reward_calls
          /\ session_state'.rewarded_questions = session_state.rewarded_questions
          /\ session_state'.answer_is_correct = session_state.answer_is_correct
          /\ session_state'.awaiting_explanation = session_state.awaiting_explanation
          /\ session_state'.attempt_count = session_state.attempt_count]_vars

C36_Witness ==
    /\ call = RevealCall
    /\ RevealShownLast(session_state)
    /\ session_state.user_id \in Users
    /\ db[session_state.user_id].currency = 0
    /\ session_state.current_question_idx \in session_state.correct_questions
    /\ ~session_state.answer_is_correct
    /\ session_state.rewarded_questions = {}

Items(inventory) == {inventory[k] : k \in 1..Len(inventory)}

\* every user record has a balance of at least 0 and no item twice
RecordsSound ==
    \A u \in DOMAIN db :
        /\ db[u].currency >= 0
        /\ Cardinality(Items(db[u].inventory)) = Len(db[u].inventory)

\* the three refusals of purchase_item, read off the record before the call
MustRefuse(a) ==
    \/ a.user_id \notin DOMAIN db
    \/ a.item_id \in Items(db[a.user_id].inventory)
    \/ db[a.user_id].currency < a.price

\* a purchase step: refused and nothing written, or paid for and added once
PurchaseStep ==
    call'.fn = "purchase_item" =>
        LET a == call'.arg
        IN  /\ MustRefuse(a) => ~result'.success
            /\ ~result'.success => db' = db
            /\ result'.success =>
                  /\ db'[a.user_id].currency = db[a.user_id].currency - a.price
                  /\ db'[a.user_id].inventory =
                         Append(db[a.user_id].inventory, a.item_id)
                  /\ a.item_id \notin Items(db[a.user_id].inventory)
                  /\ \A u \in DOMAIN db \ {a.user_id} : db'[u] = db[u]

\* C38: for one caller at a time, after any sequence of update_currency calls
\* with non-negative amounts and purchase_item calls with non-negative prices
\* the balance is at least 0 and the inventory holds no item twice; a refused
\* purchase (item owned, balance below the price, user not found) leaves the
\* balance and the inventory as they were, and a successful one takes exactly
\* the price and adds the item once.
C38_ShopSound == []RecordsSound /\ [][PurchaseStep]_vars

\* a purchase was refused for lack of fish after an earlier one succeeded
C38_Witness ==
    /\ call.fn = "purchase_item"
    /\ ~result.success
    /\ call.arg.user_id \in DOMAIN db
    /\ Len(db[call.arg.user_id].inventory) >= 1
    /\ ~Owns(db[call.arg.user_id].inventory, call.arg.item_id)
    /\ db[call.arg.user_id].currency < call.arg.price

(* ------------------ properties of calls side by side ------------------- *)

\* what a finished call reported: the amount added or the price charged
Reported(t) ==
    IF t.fn = "update_currency"
    THEN IF t.returned THEN t.arg.amount ELSE 0
    ELSE IF t.returned.success THEN 0 - t.arg.price ELSE 0

\* both calls have returned
BothReturned ==
    /\ tasks.calls # << >>
    /\ \A i \in DOMAIN tasks.calls : tasks.calls[i].pc = "done"

\* C39: when two update_currency calls, or an update_currency and a
\* purchase_item, for the same user run side by side, no update is lost: once
\* both have returned the balance is the starting balance plus every amount
\* reported added minus every price reported charged, whatever the order of
\* their read and write steps.
C39_NoLostUpdate ==
    BothReturned =>
        db[RaceUser].currency =
            tasks.start + Reported(tasks.calls[1]) + Reported(tasks.calls[2])

====
